---------------------------- MODULE Spec2Model ----------------------------
(***************************************************************************)
(* Model of the change-set planner and operation executor:                 *)
(*   - UpdateQueryBuilder.execute running against a MysqlQueryRunner       *)
(*     (src/src/query-builder/UpdateQueryBuilder.ts, src/unnamed/part_003) *)
(*   - OneToManyUpdateBuilder.build                                        *)
(*     (src/src/query-builder/UpdateQueryBuilder.ts, lines 403-554)        *)
(*   - MysqlQueryRunner used by a caller that does not await every call    *)
(*     (src/unnamed/part_003, lines 17-233)                                *)
(*   - the dependency sorter and the operation executor that run after the *)
(*     builder (their code is not in the sources at hand; modelled from    *)
(*     the specification, sections 4.3 and 4.4)                            *)
(*   - SqliteDriver.connect / disconnect / createQueryRunner               *)
(*   - UpdateQueryBuilder.where / andWhere / orWhere                       *)
(*   - the relational query builder (relation(...).of(...).add / remove)   *)
(*     on a many-to-many relation, as exercised by src/unnamed/part_001;   *)
(*     its code is not in the sources at hand, junction rows are modelled  *)
(*     from the specification                                              *)
(*     (src/src/query-builder/UpdateQueryBuilder.ts, lines 131-159)        *)
(*     (src/unnamed/part_004, lines 120-169)                               *)
(***************************************************************************)
EXTENDS Integers, Sequences, FiniteSets, TLC

VARIABLES
    \* ---- UpdateQueryBuilder.execute and its query runner ----
    suppliedRunner,         \* this.queryRunner is defined (the caller supplied the runner)
    expressionMap,          \* the flags of this.expressionMap that execute reads
    isReleased,             \* MysqlQueryRunner.isReleased
    isTransactionActive,    \* MysqlQueryRunner.isTransactionActive
    dbTx,                   \* the connection really has a transaction in progress
    pending,                \* effects written inside the transaction in progress
    committed,              \* effects that are durable in the database
    pc,                     \* position of the execute call
    transactionStartedByUs, \* the local of execute
    error,                  \* the error caught by execute ("none" when none)
    thrown,                 \* the error execute has thrown to its caller ("none" when none)
    activeAtBegin,          \* isTransactionActive when the execute call began
    calls,                  \* the calls made on the runner and broadcaster, in order
    \* ---- OneToManyUpdateBuilder ----
    subjects,               \* this.subjects
    entityCollection,       \* owner entity -> value of its one-to-many relation property
    databaseEntity,         \* owner entity -> subject.databaseEntity with its loaded relation ids
    persistenceEnabled,     \* relation.persistenceEnabled of the one-to-many relation
    cursor,                 \* index of the subject the forEach of build visits next
    initialLength,          \* length of this.subjects when build started
    buildState,             \* "ready", "running", "done" or "failed" (build has thrown)
    \* ---- MysqlQueryRunner with calls in flight ----
    databaseConnection,         \* this.databaseConnection: "undefined" or "connection"
    databaseConnectionPromise,  \* this.databaseConnectionPromise: "undefined", "pending", "resolved", "rejected"
    tasks,                      \* the calls whose promise is not settled yet, oldest first
    lastResult,                 \* the call settled last and its outcome
    poolReleases,               \* times databaseConnection.release() gave the connection back
    \* ---- SqliteDriver ----
    driverConnection,       \* SqliteDriver.databaseConnection: "undefined" or "connection"
    foreignKeysOn,          \* the connection enforces foreign keys (the PRAGMA took effect)
    driverCall,             \* the driver call in progress and its position
    driverResult,           \* the driver call settled last and its outcome
    driverLog,              \* what the driver asked of the sqlite library, with the outcome
    driverCalls,            \* number of driver calls made so far
    \* ---- dependency sorter and operation executor ----
    orderKinds,             \* subject index -> its planned operation ("insert", "update", "remove")
    orderEdges,             \* <<a, b>>: subject a holds the foreign key referencing subject b
    sorted,                 \* the subject indices in the order the sorter returned
    executed,               \* the operations issued so far, in order
    persistState,           \* "planning", "input", "ordered", "done" ("unused" when not taking part)
    \* ---- UpdateQueryBuilder.where / andWhere / orWhere ----
    wheres,                 \* expressionMap.wheres
    whereCalls,             \* the where, andWhere and orWhere calls made so far, in order
    \* ---- relational query builder on the many-to-many relation Image.posts / Post.images ----
    junction,               \* the rows of the junction table
    imageOwns,              \* Image.posts is the owning side of the relation
    relationPhase,          \* "prepared", "added", "removed" ("unused" when not taking part)
    junctionBefore,         \* the rows of the junction table before the add
    addCall,                \* the image ids and post ids of the add call
    removeCall              \* the image ids and post ids of the remove call

execVars == <<suppliedRunner, expressionMap, isReleased, isTransactionActive, dbTx,
              pending, committed, pc, transactionStartedByUs, error, thrown,
              activeAtBegin, calls>>

buildVars == <<subjects, entityCollection, databaseEntity, persistenceEnabled, cursor,
               initialLength, buildState>>

runnerVars == <<databaseConnection, databaseConnectionPromise, tasks, lastResult,
                poolReleases>>

driverVars == <<driverConnection, foreignKeysOn, driverCall, driverResult, driverLog,
                driverCalls>>

persistVars == <<orderKinds, orderEdges, sorted, executed, persistState>>

whereVars == <<wheres, whereCalls>>

relationVars == <<junction, imageOwns, relationPhase, junctionBefore, addCall, removeCall>>

\* what the actions of one part of the model leave alone
nonExecVars == <<buildVars, runnerVars, driverVars, persistVars, whereVars, relationVars>>
nonBuildVars == <<execVars, runnerVars, driverVars, persistVars, whereVars, relationVars>>
nonRunnerVars == <<suppliedRunner, expressionMap, pc, transactionStartedByUs, error, thrown,
                   activeAtBegin, calls, buildVars, driverVars, persistVars, whereVars, relationVars>>
nonDriverVars == <<execVars, buildVars, runnerVars, persistVars, whereVars, relationVars>>
nonPersistVars == <<execVars, buildVars, runnerVars, driverVars, whereVars, relationVars>>

nonWhereVars == <<execVars, buildVars, runnerVars, driverVars, persistVars, relationVars>>

nonRelationVars == <<execVars, buildVars, runnerVars, driverVars, persistVars, whereVars>>

vars == <<execVars, buildVars, runnerVars, driverVars, persistVars, whereVars, relationVars>>

-----------------------------------------------------------------------------
(* MysqlQueryRunner: transaction control and statements.                     *)
(* Every statement is one round trip that succeeds (ok) or fails (~ok); a    *)
(* failed statement changes nothing in the database.                         *)

\* MysqlQueryRunner.query: sends the statement unless the runner is released.
QueryThrows(ok) == isReleased \/ ~ok

\* What a statement that succeeded does to the database.
DbStart == /\ dbTx' = TRUE
           /\ committed' = committed \cup pending   \* START TRANSACTION commits a transaction in progress
           /\ pending' = {}

DbCommit == /\ dbTx' = FALSE
            /\ committed' = committed \cup pending
            /\ pending' = {}

DbRollback == /\ dbTx' = FALSE
              /\ pending' = {}
              /\ UNCHANGED committed

DbWrite(effect) == IF dbTx
                     THEN pending' = pending \cup {effect} /\ UNCHANGED <<committed, dbTx>>
                     ELSE committed' = committed \cup {effect} /\ UNCHANGED <<pending, dbTx>>

DbSame == UNCHANGED <<dbTx, pending, committed>>

\* MysqlQueryRunner.startTransaction
StartTransactionThrows(ok) == isReleased \/ isTransactionActive \/ QueryThrows(ok)

\* faulty variant: the flag is set but START TRANSACTION is never sent
StartTransactionFlagOnly(ok) ==
    IF isReleased \/ isTransactionActive
      THEN DbSame /\ UNCHANGED isTransactionActive
      ELSE isTransactionActive' = TRUE /\ DbSame

StartTransaction(ok) ==
    IF isReleased \/ isTransactionActive
      THEN DbSame /\ UNCHANGED isTransactionActive
      ELSE /\ isTransactionActive' = TRUE            \* set before the statement is sent
           /\ IF QueryThrows(ok) THEN DbSame ELSE DbStart

\* MysqlQueryRunner.commitTransaction
CommitTransactionThrows(ok) == isReleased \/ ~isTransactionActive \/ QueryThrows(ok)

CommitTransaction(ok) ==
    IF CommitTransactionThrows(ok)
      THEN DbSame /\ UNCHANGED isTransactionActive
      ELSE DbCommit /\ isTransactionActive' = FALSE

\* MysqlQueryRunner.rollbackTransaction
RollbackTransactionThrows(ok) == isReleased \/ ~isTransactionActive \/ QueryThrows(ok)

RollbackTransaction(ok) ==
    IF RollbackTransactionThrows(ok)
      THEN DbSame /\ UNCHANGED isTransactionActive
      ELSE DbRollback /\ isTransactionActive' = FALSE

-----------------------------------------------------------------------------
(* UpdateQueryBuilder.execute, one action per await.                         *)

ExpressionMaps == [useTransaction : BOOLEAN, callListeners : BOOLEAN,
                   hasMetadata : BOOLEAN, updateEntity : BOOLEAN,
                   whereEntities : BOOLEAN,   \* whereEntities.length > 0
                   valuesSet : BOOLEAN]       \* valuesSet instanceof Object

\* The builder takes no part in an execute call.
RunnerUnused ==
    /\ databaseConnection = "undefined"
    /\ databaseConnectionPromise = "undefined"
    /\ tasks = <<>>
    /\ lastResult = [op |-> "none", outcome |-> "none"]
    /\ poolReleases = 0

DriverUnused ==
    /\ driverConnection = "undefined"
    /\ foreignKeysOn = FALSE
    /\ driverCall = [op |-> "none", pc |-> "idle"]
    /\ driverResult = [op |-> "none", outcome |-> "none"]
    /\ driverLog = <<>>
    /\ driverCalls = 0

PersistUnused ==
    /\ orderKinds = <<>>
    /\ orderEdges = {}
    /\ sorted = <<>>
    /\ executed = <<>>
    /\ persistState = "unused"

WhereUnused ==
    /\ wheres = <<>>
    /\ whereCalls = <<>>

NoCall == [images |-> {}, posts |-> {}]

RelationUnused ==
    /\ junction = {}
    /\ imageOwns = FALSE
    /\ relationPhase = "unused"
    /\ junctionBefore = {}
    /\ addCall = NoCall
    /\ removeCall = NoCall

BuildUnused ==
    /\ subjects = <<>>
    /\ entityCollection = <<>>
    /\ databaseEntity = <<>>
    /\ persistenceEnabled = FALSE
    /\ cursor = 0
    /\ initialLength = 0
    /\ buildState = "unused"

InitExecute ==
    /\ suppliedRunner \in BOOLEAN
    /\ expressionMap \in ExpressionMaps
    /\ isReleased = FALSE
    /\ isTransactionActive = FALSE
    /\ dbTx = FALSE
    /\ pending = {}
    /\ committed = {}
    /\ pc = "idle"
    /\ transactionStartedByUs = FALSE
    /\ error = "none"
    /\ thrown = "none"
    /\ activeAtBegin = FALSE
    /\ calls = <<>>
    /\ BuildUnused
    /\ RunnerUnused
    /\ DriverUnused
    /\ RelationUnused
    /\ WhereUnused
    /\ PersistUnused

\* The caller of execute manages a transaction of its own on the runner it supplies.
CallerStartTransaction ==
    /\ pc = "idle"
    /\ suppliedRunner
    /\ \E ok \in BOOLEAN : StartTransaction(ok)
    /\ UNCHANGED <<suppliedRunner, expressionMap, isReleased, pc, transactionStartedByUs,
                   error, thrown, activeAtBegin, calls>>
    /\ UNCHANGED nonExecVars

\* const queryRunner = this.obtainQueryRunner(); let transactionStartedByUs = false;
ExecuteBegin ==
    /\ pc = "idle"
    /\ pc' = "start"
    /\ transactionStartedByUs' = FALSE
    /\ activeAtBegin' = isTransactionActive
    /\ UNCHANGED <<suppliedRunner, expressionMap, isReleased, isTransactionActive, dbTx,
                   pending, committed, error, thrown, calls>>
    /\ UNCHANGED nonExecVars

\* faulty variant: the test of isTransactionActive is dropped
ShouldStartTransactionIgnoringActive == expressionMap.useTransaction

ShouldStartTransaction == expressionMap.useTransaction /\ ~isTransactionActive

ExecuteStartTransaction ==
    /\ pc = "start"
    /\ IF ShouldStartTransaction
         THEN \E ok \in BOOLEAN :
                /\ StartTransaction(ok)
                /\ calls' = Append(calls, "startTransaction")
                /\ IF StartTransactionThrows(ok)
                     THEN pc' = "catch" /\ error' = "startTransaction"
                          /\ UNCHANGED transactionStartedByUs
                     ELSE pc' = "before" /\ transactionStartedByUs' = TRUE
                          /\ UNCHANGED error
         ELSE /\ pc' = "before"
              /\ DbSame
              /\ UNCHANGED <<isTransactionActive, transactionStartedByUs, error, calls>>
    /\ UNCHANGED <<suppliedRunner, expressionMap, isReleased, thrown, activeAtBegin>>
    /\ UNCHANGED nonExecVars

ListenersEnabled == expressionMap.callListeners /\ expressionMap.hasMetadata

ExecuteBeforeUpdate ==
    /\ pc = "before"
    /\ IF ListenersEnabled
         THEN \E ok \in BOOLEAN :
                /\ calls' = Append(calls, "broadcastBeforeUpdateEvent")
                /\ IF ok THEN pc' = "query" /\ UNCHANGED error
                         ELSE pc' = "catch" /\ error' = "broadcastBeforeUpdateEvent"
         ELSE pc' = "query" /\ UNCHANGED <<error, calls>>
    /\ DbSame
    /\ UNCHANGED <<suppliedRunner, expressionMap, isReleased, isTransactionActive,
                   transactionStartedByUs, thrown, activeAtBegin>>
    /\ UNCHANGED nonExecVars

\* getQueryAndParameters() reaches getValueSet(), which throws when set() was never called
GetValueSetThrows == ~expressionMap.valuesSet

\* faulty variant: a failed UPDATE does not leave the try block
AfterFailedQueryContinues == "update"

\* await queryRunner.query(sql, parameters) rejects: control passes to the catch block
AfterFailedQuery == "catch"

ExecuteQuery ==
    /\ pc = "query"
    /\ IF GetValueSetThrows
         THEN pc' = "catch" /\ error' = "valuesNotDefined" /\ DbSame /\ UNCHANGED calls
         ELSE \E ok \in BOOLEAN :
                /\ calls' = Append(calls, "query")
                /\ IF QueryThrows(ok)
                     THEN pc' = AfterFailedQuery /\ error' = "query" /\ DbSame
                     ELSE pc' = "update" /\ DbWrite("update") /\ UNCHANGED error
    /\ UNCHANGED <<suppliedRunner, expressionMap, isReleased, isTransactionActive,
                   transactionStartedByUs, thrown, activeAtBegin>>
    /\ UNCHANGED nonExecVars

EntityUpdateEnabled ==
    expressionMap.updateEntity /\ expressionMap.hasMetadata /\ expressionMap.whereEntities

ExecuteEntityUpdate ==
    /\ pc = "update"
    /\ IF EntityUpdateEnabled
         THEN \E ok \in BOOLEAN :
                /\ calls' = Append(calls, "returningResultsEntityUpdator.update")
                /\ IF ok THEN pc' = "after" /\ UNCHANGED error
                         ELSE pc' = "catch" /\ error' = "returningResultsEntityUpdator.update"
         ELSE pc' = "after" /\ UNCHANGED <<error, calls>>
    /\ DbSame
    /\ UNCHANGED <<suppliedRunner, expressionMap, isReleased, isTransactionActive,
                   transactionStartedByUs, thrown, activeAtBegin>>
    /\ UNCHANGED nonExecVars

ExecuteAfterUpdate ==
    /\ pc = "after"
    /\ IF ListenersEnabled
         THEN \E ok \in BOOLEAN :
                /\ calls' = Append(calls, "broadcastAfterUpdateEvent")
                /\ IF ok THEN pc' = "commit" /\ UNCHANGED error
                         ELSE pc' = "catch" /\ error' = "broadcastAfterUpdateEvent"
         ELSE pc' = "commit" /\ UNCHANGED <<error, calls>>
    /\ DbSame
    /\ UNCHANGED <<suppliedRunner, expressionMap, isReleased, isTransactionActive,
                   transactionStartedByUs, thrown, activeAtBegin>>
    /\ UNCHANGED nonExecVars

\* faulty variant: commits whoever opened the transaction
ShouldCommitAlways == TRUE

ShouldCommit == transactionStartedByUs

ExecuteCommit ==
    /\ pc = "commit"
    /\ IF ShouldCommit
         THEN \E ok \in BOOLEAN :
                /\ CommitTransaction(ok)
                /\ calls' = Append(calls, "commitTransaction")
                /\ IF CommitTransactionThrows(ok)
                     THEN pc' = "catch" /\ error' = "commitTransaction"
                     ELSE pc' = "finally" /\ UNCHANGED error
         ELSE /\ pc' = "finally"
              /\ DbSame
              /\ UNCHANGED <<isTransactionActive, error, calls>>
    /\ UNCHANGED <<suppliedRunner, expressionMap, isReleased, transactionStartedByUs,
                   thrown, activeAtBegin>>
    /\ UNCHANGED nonExecVars

\* faulty variant: rolls back whoever opened the transaction
ShouldRollbackAlways == TRUE

ShouldRollback == transactionStartedByUs

\* catch (error) { if (transactionStartedByUs) { try { rollback } catch { } } throw error; }
ExecuteCatch ==
    /\ pc = "catch"
    /\ IF ShouldRollback
         THEN \E ok \in BOOLEAN :
                /\ RollbackTransaction(ok)
                /\ calls' = Append(calls, "rollbackTransaction")
         ELSE DbSame /\ UNCHANGED <<isTransactionActive, calls>>
    /\ pc' = "finally"
    /\ UNCHANGED <<suppliedRunner, expressionMap, isReleased, transactionStartedByUs,
                   error, thrown, activeAtBegin>>
    /\ UNCHANGED nonExecVars

\* faulty variant: the runner is released whoever obtained it
ShouldReleaseAlways == TRUE

\* queryRunner !== this.queryRunner: execute created the runner
ShouldRelease == ~suppliedRunner

\* finally { release the runner execute created }; then the call returns or throws.
\* The runner is a MysqlQueryRunner, so the driver is no SqljsDriver and autoSave is not called.
ExecuteFinally ==
    /\ pc = "finally"
    /\ IF ShouldRelease
         THEN isReleased' = TRUE /\ calls' = Append(calls, "release")
         ELSE UNCHANGED <<isReleased, calls>>
    /\ pc' = "done"
    /\ thrown' = error
    /\ DbSame
    /\ UNCHANGED <<suppliedRunner, expressionMap, isTransactionActive,
                   transactionStartedByUs, error, activeAtBegin>>
    /\ UNCHANGED nonExecVars

NextExecute ==
    \/ CallerStartTransaction
    \/ ExecuteBegin
    \/ ExecuteStartTransaction
    \/ ExecuteBeforeUpdate
    \/ ExecuteQuery
    \/ ExecuteEntityUpdate
    \/ ExecuteAfterUpdate
    \/ ExecuteCommit
    \/ ExecuteCatch
    \/ ExecuteFinally

SpecExecute == InitExecute /\ [][NextExecute]_vars

-----------------------------------------------------------------------------
(* OneToManyUpdateBuilder: Post has the one-to-many relation "categories"    *)
(* to Category, whose many-to-one inverse relation is "post".                *)

MaxLen == 2     \* longest in-memory collection

Owners == {"p1", "p2"}               \* Post entities being saved
OwnerOrder == <<"p1", "p2">>
SavedEntities == {"c1", "c2"}        \* Category entities that have an identifier
NewEntities == {"n1"}                \* Category entities that have none yet
RelatedEntities == SavedEntities \cup NewEntities
RelatedOrder == <<"c1", "c2", "c3", "n1", "n2">>   \* order of the related subjects in this.subjects
IdMaps == {"id1", "id2"}             \* relation id maps of the saved categories
IdOrder == <<"id1", "id2">>

\* relation.getRelationIdMap(relatedEntity): undefined for an entity without identifier
getRelationIdMap(e) ==
    CASE e = "c1" -> "id1"
      [] e = "c2" -> "id2"
      [] e = "c3" -> "id3"
      [] OTHER -> "undefined"

\* relation.inverseRelation and relation.inverseEntityMetadata
InverseRelation == "post"
InverseEntityMetadata == "Category"

\* subject.metadata.oneToManyRelations
oneToManyRelations(metadata) == IF metadata = "Post" THEN <<"categories">> ELSE <<>>

\* new Subject(metadata): no entity, no identifier, no change maps
NewSubject(metadata) ==
    [metadata |-> metadata, entity |-> "none", identifier |-> "undefined",
     canBeUpdated |-> FALSE, changeMaps |-> <<>>]

\* a Subject built for an entity before the one-to-many builder runs
EntitySubject(metadata, e) ==
    [NewSubject(metadata) EXCEPT !.entity = e, !.identifier = getRelationIdMap(e)]

\* OrmUtils.deepCompare on relation id maps: equality by value
deepCompare(a, b) == a = b

\* EntityMetadataUtils.difference(first, second): the id maps of first that are in second
\* by no deepCompare, in the order of first
difference(first, second) ==
    SelectSeq(first, LAMBDA a : ~\E j \in DOMAIN second : deepCompare(a, second[j]))

\* this.subjects.find(s => !!s.entity && s.entity === relatedEntity): index, 0 if none
FindSubject(subjs, relatedEntity) ==
    LET found == {i \in DOMAIN subjs : subjs[i].entity # "none" /\ subjs[i].entity = relatedEntity}
    IN IF found = {} THEN 0 ELSE CHOOSE i \in found : \A j \in found : i <= j

\* faulty variant: the change map is pushed with value null whatever the value
PushChangeMapNull(subjs, i, value) ==
    [subjs EXCEPT ![i].changeMaps = Append(@, [relation |-> InverseRelation, value |-> "null"])]

\* changeMaps.push({relation: relation.inverseRelation, value: ...})
PushChangeMap(subjs, i, value) ==
    [subjs EXCEPT ![i].changeMaps = Append(@, [relation |-> InverseRelation, value |-> value])]

\* faulty variant: the binding is never found in the database
ExistsInDatabaseNever(relationIdMap, databaseRelationIds) == FALSE

\* relatedEntityDatabaseRelationIds.find(id => deepCompare(relationIdMap, id)) is found
ExistsInDatabase(relationIdMap, databaseRelationIds) ==
    \E j \in DOMAIN databaseRelationIds : deepCompare(relationIdMap, databaseRelationIds[j])

\* the Subject created for a related record that is known by its identifier only
IdentifierSubject(relationIdMap) ==
    [NewSubject(InverseEntityMetadata) EXCEPT !.canBeUpdated = TRUE, !.identifier = relationIdMap]

\* lines 475-496: the related entity has no relation id map, it is not saved yet
\* faulty variant: an entity without Subject is skipped instead of being refused
BindNewEntitySilently(acc, owner, relatedEntitySubject) ==
    IF relatedEntitySubject = 0
      THEN acc
      ELSE [acc EXCEPT !.subjects = PushChangeMap(@, relatedEntitySubject, owner)]

BindNewEntity(acc, owner, relatedEntitySubject) ==
    IF relatedEntitySubject = 0
      THEN [acc EXCEPT !.thrown = TRUE]
      ELSE [acc EXCEPT !.subjects = PushChangeMap(@, relatedEntitySubject, owner)]

\* lines 498-532: the related entity has a relation id map
BindSavedEntity(acc, owner, relationIdMap, relatedEntitySubject, databaseRelationIds) ==
    IF ~ExistsInDatabase(relationIdMap, databaseRelationIds)
      THEN IF relatedEntitySubject = 0
             THEN [acc EXCEPT
                     !.subjects = PushChangeMap(Append(@, IdentifierSubject(relationIdMap)),
                                                Len(@) + 1, owner),
                     !.persisted = Append(@, relationIdMap)]
             ELSE [acc EXCEPT
                     !.subjects = PushChangeMap(@, relatedEntitySubject, owner),
                     !.persisted = Append(@, relationIdMap)]
      ELSE [acc EXCEPT !.persisted = Append(@, relationIdMap)]

\* One call of the callback of relatedEntities.forEach (lines 463-533).
\* acc = [subjects, persisted, thrown]
BindRelatedEntity(acc, owner, relatedEntity, databaseRelationIds) ==
    LET relationIdMap == getRelationIdMap(relatedEntity)
        relatedEntitySubject == FindSubject(acc.subjects, relatedEntity)
    IN IF relationIdMap = "undefined"
         THEN BindNewEntity(acc, owner, relatedEntitySubject)
         ELSE BindSavedEntity(acc, owner, relationIdMap, relatedEntitySubject,
                              databaseRelationIds)

\* relatedEntities.forEach(...): stops at the first callback that throws
RECURSIVE ForEachRelatedEntity(_, _, _, _)
ForEachRelatedEntity(acc, owner, relatedEntities, databaseRelationIds) ==
    IF relatedEntities = <<>> \/ acc.thrown
      THEN acc
      ELSE ForEachRelatedEntity(
               BindRelatedEntity(acc, owner, Head(relatedEntities), databaseRelationIds),
               owner, Tail(relatedEntities), databaseRelationIds)

\* difference(...).forEach(removed => this.subjects.push(new Subject with a null change map))
RECURSIVE PushRemoved(_, _)
PushRemoved(subjs, removed) ==
    IF removed = <<>>
      THEN subjs
      ELSE PushRemoved(
               PushChangeMap(Append(subjs, IdentifierSubject(Head(removed))),
                             Len(subjs) + 1, "null"),
               Tail(removed))

\* faulty variant: a null collection is skipped like an undefined one
SkipsRelationAlsoNull(collection) == collection.kind \in {"undefined", "null"}

\* faulty variant: the arguments of difference are swapped
RemovedRelationIdsSwapped(databaseRelationIds, persistedRelationIds) ==
    difference(persistedRelationIds, databaseRelationIds)

\* EntityMetadataUtils.difference(relatedEntityDatabaseRelationIds, relatedPersistedEntityRelationIds)
RemovedRelationIds(databaseRelationIds, persistedRelationIds) ==
    difference(databaseRelationIds, persistedRelationIds)

\* if (relatedEntities === undefined) return;
SkipsRelation(collection) == collection.kind = "undefined"

\* buildForSubjectRelation(subject, relation): [subjects, thrown]
buildForSubjectRelation(subjs, owner) ==
    LET relatedEntityDatabaseRelationIds ==
            IF databaseEntity[owner].loaded THEN databaseEntity[owner].categories ELSE <<>>
        collection == entityCollection[owner]
        relatedEntities == IF collection.kind = "null" THEN <<>> ELSE collection.items
        bound == ForEachRelatedEntity([subjects |-> subjs, persisted |-> <<>>, thrown |-> FALSE],
                                      owner, relatedEntities, relatedEntityDatabaseRelationIds)
    IN IF SkipsRelation(collection)
         THEN [subjects |-> subjs, thrown |-> FALSE]
         ELSE IF bound.thrown
                THEN [subjects |-> bound.subjects, thrown |-> TRUE]
                ELSE [subjects |-> PushRemoved(bound.subjects,
                                      RemovedRelationIds(relatedEntityDatabaseRelationIds,
                                                         bound.persisted)),
                      thrown |-> FALSE]

\* subject.metadata.oneToManyRelations.forEach(relation => ...) for one subject
RECURSIVE ForEachRelation(_, _, _)
ForEachRelation(acc, subject, relations) ==
    IF relations = <<>> \/ acc.thrown
      THEN acc
      ELSE ForEachRelation(
               IF persistenceEnabled = FALSE
                 THEN acc
                 ELSE buildForSubjectRelation(acc.subjects, subject.entity),
               subject, Tail(relations))

\* ---- inputs ----

\* the sequences over S of length at most n
SeqsUpTo(S, n) == UNION {[1..k -> S] : k \in 0..n}

Collections ==
    {[kind |-> "undefined", items |-> <<>>], [kind |-> "null", items |-> <<>>]}
      \cup {[kind |-> "array", items |-> items] : items \in SeqsUpTo(RelatedEntities, MaxLen)}

\* The database holds, for every saved category, the post its join column refers to:
\* a category is bound to at most one post, and only to a post that is stored and loaded.
DatabaseEntities ==
    {[o \in Owners |->
        [loaded |-> o \in loaded,
         categories |-> SelectSeq(IdOrder, LAMBDA id : fk[id] = o)]] :
       <<loaded, fk>> \in {<<l, f>> \in (SUBSET Owners) \X [IdMaps -> Owners \cup {"none"}] :
                              \A id \in IdMaps : f[id] \in l \cup {"none"}}}

\* the subjects handed to the builder: one per owner, and one per related entity that is
\* part of the save
InitialSubjects(withSubject) ==
    [i \in 1..Len(OwnerOrder) |-> EntitySubject("Post", OwnerOrder[i])]
      \o [i \in 1..Len(SelectSeq(RelatedOrder, LAMBDA e : e \in withSubject)) |->
            EntitySubject(InverseEntityMetadata, SelectSeq(RelatedOrder, LAMBDA e : e \in withSubject)[i])]

\* No execute call takes part in a planning pass.
ExecuteUnused ==
    /\ suppliedRunner = FALSE
    /\ expressionMap = <<>>
    /\ isReleased = FALSE
    /\ isTransactionActive = FALSE
    /\ dbTx = FALSE
    /\ pending = {}
    /\ committed = {}
    /\ pc = "unused"
    /\ transactionStartedByUs = FALSE
    /\ error = "none"
    /\ thrown = "none"
    /\ activeAtBegin = FALSE
    /\ calls = <<>>

InitBuild ==
    /\ \E withSubject \in SUBSET RelatedEntities : subjects = InitialSubjects(withSubject)
    /\ entityCollection \in [Owners -> Collections]
    /\ databaseEntity \in DatabaseEntities
    /\ persistenceEnabled \in BOOLEAN
    /\ cursor = 0
    /\ initialLength = 0
    /\ buildState = "ready"
    /\ ExecuteUnused
    /\ RunnerUnused
    /\ DriverUnused
    /\ RelationUnused
    /\ WhereUnused
    /\ PersistUnused

\* build(): this.subjects.forEach fixes the range of indices it visits when it starts
BuildBegin ==
    /\ buildState = "ready"
    /\ buildState' = "running"
    /\ cursor' = 1
    /\ initialLength' = Len(subjects)
    /\ UNCHANGED <<subjects, entityCollection, databaseEntity, persistenceEnabled>>
    /\ UNCHANGED nonBuildVars

\* faulty variant: the forEach also visits the Subjects appended during the pass
InRangeGrowing == cursor <= Len(subjects)

\* Array.prototype.forEach visits the indices below the length the array had at the start
InRange == cursor <= initialLength

\* one callback of this.subjects.forEach: all one-to-many relations of one subject
BuildVisit ==
    /\ buildState = "running"
    /\ InRange
    /\ LET subject == subjects[cursor]
           r == ForEachRelation([subjects |-> subjects, thrown |-> FALSE], subject,
                                oneToManyRelations(subject.metadata))
       IN /\ subjects' = r.subjects
          /\ buildState' = IF r.thrown THEN "failed" ELSE "running"
    /\ cursor' = cursor + 1
    /\ UNCHANGED <<entityCollection, databaseEntity, persistenceEnabled, initialLength>>
    /\ UNCHANGED nonBuildVars

\* the forEach has visited its whole range: build returns
BuildReturn ==
    /\ buildState = "running"
    /\ cursor > initialLength
    /\ buildState' = "done"
    /\ UNCHANGED <<subjects, entityCollection, databaseEntity, persistenceEnabled, cursor,
                   initialLength>>
    /\ UNCHANGED nonBuildVars

NextBuild == BuildBegin \/ BuildVisit \/ BuildReturn

SpecBuild == InitBuild /\ [][NextBuild]_vars

\* ---- one post diffed against a wider range of categories ----

DiffEntities == {"c1", "c2", "c3", "n1"}
DiffIdOrder == <<"id1", "id2", "id3">>

DiffCollections ==
    {[kind |-> "undefined", items |-> <<>>], [kind |-> "null", items |-> <<>>]}
      \cup {[kind |-> "array", items |-> items] : items \in SeqsUpTo(DiffEntities, MaxLen)}

NotLoaded == [loaded |-> FALSE, categories |-> <<>>]

InitDiff ==
    /\ \E withSubject \in SUBSET DiffEntities : subjects = InitialSubjects(withSubject)
    /\ \E collection \in DiffCollections :
          entityCollection = [o \in Owners |->
                                IF o = "p1" THEN collection
                                            ELSE [kind |-> "undefined", items |-> <<>>]]
    /\ \E stored \in SUBSET {"id1", "id2", "id3"}, loaded \in BOOLEAN :
          /\ ~loaded => stored = {}
          /\ databaseEntity = [o \in Owners |->
                                IF o = "p1"
                                  THEN [loaded |-> loaded,
                                        categories |-> SelectSeq(DiffIdOrder, LAMBDA id : id \in stored)]
                                  ELSE NotLoaded]
    /\ persistenceEnabled = TRUE
    /\ cursor = 0
    /\ initialLength = 0
    /\ buildState = "ready"
    /\ ExecuteUnused
    /\ RunnerUnused
    /\ DriverUnused
    /\ RelationUnused
    /\ WhereUnused
    /\ PersistUnused

SpecDiff == InitDiff /\ [][NextBuild]_vars

\* ---- one pass of build, run to its end ----

\* one post with a collection and stored categories, one post with nothing to diff, and
\* the relation with persistence enabled or disabled
InitPass ==
    /\ \E withSubject \in SUBSET RelatedEntities : subjects = InitialSubjects(withSubject)
    /\ \E collection \in Collections :
          entityCollection = [o \in Owners |->
                                IF o = "p1" THEN collection
                                            ELSE [kind |-> "undefined", items |-> <<>>]]
    /\ \E stored \in SUBSET IdMaps, loaded \in BOOLEAN :
          /\ ~loaded => stored = {}
          /\ databaseEntity = [o \in Owners |->
                                IF o = "p1"
                                  THEN [loaded |-> loaded,
                                        categories |-> SelectSeq(IdOrder, LAMBDA id : id \in stored)]
                                  ELSE NotLoaded]
    /\ persistenceEnabled \in BOOLEAN
    /\ cursor = 0
    /\ initialLength = 0
    /\ buildState = "ready"
    /\ ExecuteUnused
    /\ RunnerUnused
    /\ DriverUnused
    /\ RelationUnused
    /\ WhereUnused
    /\ PersistUnused

\* build is synchronous: once called it runs on until it returns or throws
SpecPass == InitPass /\ [][NextBuild]_vars /\ WF_vars(NextBuild)

-----------------------------------------------------------------------------
(* Properties of UpdateQueryBuilder.execute                                  *)

Called(c) == \E i \in DOMAIN calls : calls[i] = c

CalledBefore(a, b) == \E i, j \in DOMAIN calls : i < j /\ calls[i] = a /\ calls[j] = b

\* this call opened the transaction: it called startTransaction and the call succeeded
OpenedByThisCall == Called("startTransaction") /\ error # "startTransaction"

Returned == pc = "done" /\ thrown = "none"
HasThrown == pc = "done" /\ thrown # "none"

\* C1 as stated: with no transaction active at the start the call opens one before the
\* UPDATE; with one active it never calls startTransaction; transactionStartedByUs is
\* true exactly when this call opened the transaction.
C1_AsStated ==
    /\ (~activeAtBegin /\ Called("query")) => CalledBefore("startTransaction", "query")
    /\ activeAtBegin => ~Called("startTransaction")
    /\ pc \notin {"idle", "start"} => (transactionStartedByUs <=> OpenedByThisCall)

\* C1 (amended): the call opens a transaction before the UPDATE when useTransaction is
\* enabled and none is active at the start; when one is active or useTransaction is
\* disabled it never calls startTransaction; transactionStartedByUs is true exactly when
\* startTransaction was called and succeeded.
C1_OpensTransactionWhenEnabled ==
    /\ (expressionMap.useTransaction /\ ~activeAtBegin /\ Called("query"))
          => CalledBefore("startTransaction", "query") /\ transactionStartedByUs
    /\ (activeAtBegin \/ ~expressionMap.useTransaction) => ~Called("startTransaction")
    /\ pc \notin {"idle", "start"} => (transactionStartedByUs <=> OpenedByThisCall)

C1_Witness ==
    /\ pc = "done" /\ ~activeAtBegin /\ transactionStartedByUs
    /\ CalledBefore("startTransaction", "query")

\* C2: when execute has thrown, the error thrown is the error of the operation that
\* failed; rollbackTransaction was called right after the failing operation if this call
\* opened the transaction, and was never called otherwise (in particular not in a
\* transaction that was active before the call).
C2_RollbackOnlyOwnTransaction ==
    HasThrown =>
        /\ thrown # "rollbackTransaction"
        /\ OpenedByThisCall =>
              /\ Called("rollbackTransaction")
              /\ thrown # "valuesNotDefined" =>
                    \E i \in DOMAIN calls : /\ calls[i] = thrown
                                            /\ i + 1 \in DOMAIN calls
                                            /\ calls[i + 1] = "rollbackTransaction"
        /\ ~OpenedByThisCall => ~Called("rollbackTransaction")
        /\ activeAtBegin => ~Called("rollbackTransaction")

C2_Witness ==
    /\ HasThrown /\ thrown = "query" /\ transactionStartedByUs
    /\ Called("rollbackTransaction")

\* C3: when execute has returned, commitTransaction was called if and only if this call
\* opened the transaction; a transaction active when the call began is still active and
\* was neither committed nor rolled back by the call.
C3_CommitOnlyOwnTransaction ==
    Returned =>
        /\ Called("commitTransaction") <=> OpenedByThisCall
        /\ activeAtBegin =>
              /\ isTransactionActive
              /\ ~Called("commitTransaction") /\ ~Called("rollbackTransaction")
              /\ dbTx => "update" \in pending /\ "update" \notin committed

C3_Witness == Returned /\ activeAtBegin /\ dbTx /\ "update" \in pending

C5_TransactionNeverLeftOpen ==
    (pc = "done" /\ Called("startTransaction")) => ~isTransactionActive /\ ~dbTx

-----------------------------------------------------------------------------
(* Properties of OneToManyUpdateBuilder                                      *)

\* the forEach of build is about to call buildForSubjectRelation for this owner
Visiting(o) ==
    /\ buildState = "running"
    /\ cursor <= initialLength
    /\ subjects[cursor].metadata = "Post"
    /\ subjects[cursor].entity = o
    /\ persistenceEnabled

\* the owner's subject has been visited and build has not thrown
Visited(o) ==
    /\ buildState \in {"running", "done"}
    /\ persistenceEnabled
    /\ \E i \in 1..initialLength : i < cursor /\ subjects[i].entity = o

\* before: the related identifiers stored in the database for the owner
Before(o) == IF databaseEntity[o].loaded
               THEN {databaseEntity[o].categories[k] : k \in DOMAIN databaseEntity[o].categories}
               ELSE {}

\* after: the relation id maps of the owner's in-memory collection (undefined for a
\* related entity that is new)
After(o) == {getRelationIdMap(entityCollection[o].items[k]) : k \in DOMAIN entityCollection[o].items}

NullChangeMap == [relation |-> InverseRelation, value |-> "null"]
OwnerChangeMap(o) == [relation |-> InverseRelation, value |-> o]

SameRecord(a, b) ==
    /\ a.metadata = b.metadata
    /\ \/ a.identifier # "undefined" /\ a.identifier = b.identifier
       \/ a.entity # "none" /\ a.entity = b.entity

\* C6: after build, the subjects list holds at most one Subject per distinct
\* (entity type, identifier or entity instance).
C6_AtMostOneSubjectPerRecord ==
    buildState = "done" =>
        \A i, j \in DOMAIN subjects : i # j => ~SameRecord(subjects[i], subjects[j])

\* C7: for each identifier stored for the owner and absent from its collection, the
\* resolver creates a Subject only if none exists for that record, and the record's
\* Subject receives a change map nulling the inverse relation.
C7_OrphanSubjectCreatedOnlyIfNone ==
    [][\A o \in Owners :
         (Visiting(o) /\ entityCollection[o].kind # "undefined" /\ buildState' = "running") =>
            \A id \in Before(o) \ After(o) :
               LET existing == {i \in DOMAIN subjects :
                                   /\ subjects[i].metadata = InverseEntityMetadata
                                   /\ subjects[i].identifier = id}
                   now == {i \in DOMAIN subjects' :
                              /\ subjects'[i].metadata = InverseEntityMetadata
                              /\ subjects'[i].identifier = id}
               IN /\ existing # {} => now = existing
                  /\ existing = {} => Cardinality(now) = 1
                  /\ \E i \in now : /\ subjects'[i].changeMaps # <<>>
                                    /\ subjects'[i].changeMaps[Len(subjects'[i].changeMaps)]
                                         = NullChangeMap
      ]_vars

Occurrences(items, e) == Cardinality({k \in DOMAIN items : items[k] = e})

\* C8: for the related entities of the owner's collection that have no identifier, the
\* resolver fails exactly when one of them has no Subject; otherwise the Subject of each
\* receives exactly one change map {relation: inverseRelation, value: owner Subject} per
\* occurrence in the collection.
C8_NewRelatedEntityNeedsSubject ==
    [][\A o \in Owners :
         (Visiting(o) /\ entityCollection[o].kind = "array") =>
            LET items == entityCollection[o].items
                missing == \E k \in DOMAIN items :
                              /\ items[k] \in NewEntities
                              /\ ~\E i \in DOMAIN subjects : subjects[i].entity = items[k]
            IN /\ (buildState' = "failed") <=> missing
               /\ ~missing =>
                     \A i \in DOMAIN subjects :
                        subjects[i].entity \in NewEntities =>
                           subjects'[i].changeMaps =
                              subjects[i].changeMaps
                                \o [k \in 1..Occurrences(items, subjects[i].entity) |->
                                       OwnerChangeMap(o)]
      ]_vars

C8_Witness ==
    /\ Visited("p1")
    /\ \E k \in DOMAIN entityCollection["p1"].items : entityCollection["p1"].items[k] = "n1"
    /\ \E i \in DOMAIN subjects : /\ subjects[i].entity = "n1"
                                  /\ subjects[i].changeMaps = <<OwnerChangeMap("p1")>>

RECURSIVE TotalChangeMaps(_)
TotalChangeMaps(subjs) ==
    IF subjs = <<>> THEN 0 ELSE Len(Head(subjs).changeMaps) + TotalChangeMaps(Tail(subjs))

\* C9: a null collection removes every binding stored for the owner (each stored
\* identifier gets a change map nulling the relation, and no other change map is
\* attached); an undefined collection adds no Subject and attaches no change map,
\* whatever the database holds.
C9_NullRemovesAllUndefinedSkips ==
    [][\A o \in Owners :
         /\ (Visiting(o) /\ entityCollection[o].kind = "undefined") =>
               subjects' = subjects /\ buildState' = "running"
         /\ (Visiting(o) /\ entityCollection[o].kind = "null") =>
               /\ buildState' = "running"
               /\ TotalChangeMaps(subjects') = TotalChangeMaps(subjects) + Cardinality(Before(o))
               /\ \A id \in Before(o) :
                     \E i \in DOMAIN subjects' :
                        /\ subjects'[i].identifier = id
                        /\ subjects'[i].metadata = InverseEntityMetadata
                        /\ subjects'[i].changeMaps # <<>>
                        /\ subjects'[i].changeMaps[Len(subjects'[i].changeMaps)] = NullChangeMap
                        /\ i \in DOMAIN subjects =>
                              Len(subjects'[i].changeMaps) = Len(subjects[i].changeMaps) + 1
      ]_vars

C9_Witness ==
    /\ Visited("p1")
    /\ entityCollection["p1"].kind = "null"
    /\ Cardinality(Before("p1")) = 2
    /\ entityCollection["p2"].kind = "undefined"
    /\ Len(subjects) = initialLength + 2
    /\ buildState = "done"

\* C10: when the identifiers stored for the owner equal, as sets, the relation id maps
\* of its in-memory collection, the resolver attaches no change map and adds no Subject.
C10_EqualSetsChangeNothing ==
    [][\A o \in Owners :
         (Visiting(o) /\ entityCollection[o].kind # "undefined" /\ Before(o) = After(o)) =>
            subjects' = subjects /\ buildState' = "running"
      ]_vars

C10_Witness ==
    /\ Visited("p1")
    /\ entityCollection["p1"].kind = "array"
    /\ Before("p1") = After("p1")
    /\ Cardinality(Before("p1")) = 2
    /\ Len(subjects) = initialLength

-----------------------------------------------------------------------------
(* MysqlQueryRunner whose caller does not await every call: a call runs up   *)
(* to its first await, the pool hands out the connection in a callback, the  *)
(* call resumes and sends its statement, and the statement's callback        *)
(* settles the call.  Awaiting calls resume in the order they were made and  *)
(* the connection answers statements in the order they were sent.            *)

MaxPending == 2   \* calls in flight at the same time

\* insert stands for insert, update and delete: each checks isReleased, builds its SQL
\* and awaits this.query(sql, parameters)
StatementOps == {"query", "insert"}
TransactionOps == {"startTransaction", "commitTransaction", "rollbackTransaction"}
RunnerOps == StatementOps \cup TransactionOps

\* faulty variant: startTransaction does not look at isTransactionActive
SyncOutcomeNoActiveCheck(op) ==
    IF isReleased THEN "QueryRunnerAlreadyReleasedError"
    ELSE IF op \in {"commitTransaction", "rollbackTransaction"} /\ ~isTransactionActive
           THEN "TransactionNotStartedError"
    ELSE "accepted"

\* the guards a call passes before it reaches this.query(...)
SyncOutcome(op) ==
    IF isReleased THEN "QueryRunnerAlreadyReleasedError"
    ELSE IF op = "startTransaction" /\ isTransactionActive THEN "TransactionAlreadyStartedError"
    ELSE IF op \in {"commitTransaction", "rollbackTransaction"} /\ ~isTransactionActive
           THEN "TransactionNotStartedError"
    ELSE "accepted"

\* connect(): the first call asks the pool, later calls share the promise
Connect ==
    /\ databaseConnectionPromise' =
          IF databaseConnection = "undefined" /\ databaseConnectionPromise = "undefined"
            THEN "pending" ELSE databaseConnectionPromise
    /\ UNCHANGED databaseConnection

\* the value connect() returned is settled: the awaiting call can resume
ConnectSettled ==
    databaseConnection # "undefined" \/ databaseConnectionPromise \in {"resolved", "rejected"}

\* a call of query, insert (update, delete), startTransaction, commitTransaction or
\* rollbackTransaction, up to its first await
Call(op) ==
    LET outcome == SyncOutcome(op)
    IN IF outcome # "accepted"
         THEN /\ lastResult' = [op |-> op, outcome |-> outcome]
              /\ UNCHANGED <<isTransactionActive, databaseConnection,
                             databaseConnectionPromise, tasks>>
         ELSE /\ Len(tasks) < MaxPending
              /\ isTransactionActive' = IF op = "startTransaction" THEN TRUE
                                                                   ELSE isTransactionActive
              /\ Connect
              /\ tasks' = Append(tasks, [op |-> op, pc |-> "connecting"])
              /\ UNCHANGED lastResult

RunnerCall ==
    /\ \E op \in RunnerOps : Call(op)
    /\ DbSame
    /\ UNCHANGED isReleased
    /\ UNCHANGED poolReleases
    /\ UNCHANGED nonRunnerVars

\* the callback of this.driver.pool.getConnection
PoolCallback ==
    /\ databaseConnectionPromise = "pending"
    /\ \E err \in BOOLEAN :
          /\ databaseConnection' = IF err THEN "undefined" ELSE "connection"
          /\ databaseConnectionPromise' = IF err THEN "rejected" ELSE "resolved"
    /\ DbSame
    /\ UNCHANGED <<isReleased, isTransactionActive, tasks, lastResult>>
    /\ UNCHANGED poolReleases
    /\ UNCHANGED nonRunnerVars

\* the oldest call still awaiting this.connect()
FirstConnecting ==
    IF \E i \in DOMAIN tasks : tasks[i].pc = "connecting"
      THEN CHOOSE i \in DOMAIN tasks :
             /\ tasks[i].pc = "connecting"
             /\ \A j \in DOMAIN tasks : tasks[j].pc = "connecting" => i <= j
      ELSE 0

\* query() resumes after `await this.connect()`: it sends the statement, or, when the
\* pool failed, the executor throws and the promise of query() is never settled
TaskResume ==
    /\ FirstConnecting # 0
    /\ ConnectSettled
    /\ LET i == FirstConnecting
       IN IF databaseConnection = "undefined"
            THEN /\ tasks' = SubSeq(tasks, 1, i - 1) \o SubSeq(tasks, i + 1, Len(tasks))
                 /\ lastResult' = [op |-> tasks[i].op, outcome |-> "never settled"]
            ELSE /\ tasks' = [tasks EXCEPT ![i].pc = "sent"]
                 /\ UNCHANGED lastResult
    /\ DbSame
    /\ UNCHANGED <<isReleased, isTransactionActive, databaseConnection,
                   databaseConnectionPromise>>
    /\ UNCHANGED poolReleases
    /\ UNCHANGED nonRunnerVars

\* what the statement of a call does to the database when it succeeds
DbEffect(op) ==
    CASE op = "startTransaction" -> DbStart
      [] op = "commitTransaction" -> DbCommit
      [] op = "rollbackTransaction" -> DbRollback
      [] OTHER -> DbWrite(op)

\* faulty variant: commit and rollback leave the flag alone
FlagAfterOkStale(op) == isTransactionActive

\* await this.query("COMMIT") / ("ROLLBACK") resolved: this.isTransactionActive = false
FlagAfterOk(op) ==
    IF op \in {"commitTransaction", "rollbackTransaction"} THEN FALSE ELSE isTransactionActive

\* the callback of databaseConnection.query for the oldest statement sent
TaskRespond ==
    /\ tasks # <<>>
    /\ tasks[1].pc = "sent"
    /\ \E ok \in BOOLEAN :
          IF ok
            THEN /\ DbEffect(tasks[1].op)
                 /\ isTransactionActive' = FlagAfterOk(tasks[1].op)
                 /\ lastResult' = [op |-> tasks[1].op, outcome |-> "ok"]
            ELSE /\ DbSame
                 /\ UNCHANGED isTransactionActive
                 /\ lastResult' = [op |-> tasks[1].op, outcome |-> "statement failed"]
    /\ tasks' = Tail(tasks)
    /\ UNCHANGED <<isReleased, databaseConnection, databaseConnectionPromise>>
    /\ UNCHANGED poolReleases
    /\ UNCHANGED nonRunnerVars

MaxPoolReleases == 2   \* times the connection is given back to the pool

\* release()
Release ==
    /\ databaseConnection = "connection" => poolReleases < MaxPoolReleases
    /\ isReleased' = TRUE
    /\ poolReleases' = IF databaseConnection = "connection" THEN poolReleases + 1
                                                            ELSE poolReleases
    /\ DbSame
    /\ UNCHANGED <<isTransactionActive, databaseConnection, databaseConnectionPromise,
                   tasks, lastResult>>
    /\ UNCHANGED nonRunnerVars

InitRunner ==
    /\ ExecuteUnused
    /\ BuildUnused
    /\ RunnerUnused
    /\ DriverUnused
    /\ RelationUnused
    /\ WhereUnused
    /\ PersistUnused

NextRunner == RunnerCall \/ PoolCallback \/ TaskResume \/ TaskRespond \/ Release

SpecRunner == InitRunner /\ [][NextRunner]_vars

-----------------------------------------------------------------------------
(* SqliteDriver: connect opens the database and enables foreign keys,        *)
(* disconnect closes it, createQueryRunner hands out a runner.  The caller   *)
(* awaits each call before making the next one.                              *)

MaxDriverCalls == 3   \* driver calls made by the caller

Idle == [op |-> "none", pc |-> "idle"]

\* one request to the sqlite library made on behalf of the call in progress
Logged(statement, ok) ==
    Append(driverLog, [call |-> driverCalls, statement |-> statement, ok |-> ok])

\* connect(): new this.sqlite.Database(this.options.database, callback)
DriverConnect ==
    /\ driverCall = Idle
    /\ driverCalls < MaxDriverCalls
    /\ driverCalls' = driverCalls + 1
    /\ driverCall' = [op |-> "connect", pc |-> "opening"]
    /\ UNCHANGED <<driverConnection, foreignKeysOn, driverResult, driverLog>>
    /\ UNCHANGED nonDriverVars

\* the callback of new Database: fail(err), or keep the connection and run the PRAGMA
DriverOpened ==
    /\ driverCall = [op |-> "connect", pc |-> "opening"]
    /\ \E err \in BOOLEAN :
          /\ driverLog' = Logged("open", ~err)
          /\ IF err
               THEN /\ driverResult' = [op |-> "connect", outcome |-> "open failed"]
                    /\ driverCall' = Idle
                    /\ UNCHANGED <<driverConnection, foreignKeysOn>>
               ELSE /\ driverConnection' = "connection"
                    /\ foreignKeysOn' = FALSE
                    /\ driverCall' = [op |-> "connect", pc |-> "pragma"]
                    /\ UNCHANGED driverResult
    /\ UNCHANGED driverCalls
    /\ UNCHANGED nonDriverVars

\* connection.run("PRAGMA foreign_keys = ON;", (err, result) => { ok(); })
PragmaOutcome(err) == "ok"

\* the callback of the PRAGMA statement
DriverPragmaDone ==
    /\ driverCall = [op |-> "connect", pc |-> "pragma"]
    /\ \E err \in BOOLEAN :
          /\ driverLog' = Logged("PRAGMA foreign_keys = ON", ~err)
          /\ foreignKeysOn' = ~err
          /\ driverResult' = [op |-> "connect", outcome |-> PragmaOutcome(err)]
    /\ driverCall' = Idle
    /\ UNCHANGED <<driverConnection, driverCalls>>
    /\ UNCHANGED nonDriverVars

\* disconnect(): fails at once without a connection, else asks the library to close
DriverDisconnect ==
    /\ driverCall = Idle
    /\ driverCalls < MaxDriverCalls
    /\ driverCalls' = driverCalls + 1
    /\ IF driverConnection = "undefined"
         THEN /\ driverResult' = [op |-> "disconnect", outcome |-> "ConnectionIsNotSetError"]
              /\ UNCHANGED driverCall
         ELSE /\ driverCall' = [op |-> "disconnect", pc |-> "closing"]
              /\ UNCHANGED driverResult
    /\ UNCHANGED <<driverConnection, foreignKeysOn, driverLog>>
    /\ UNCHANGED nonDriverVars

\* the handler passed to connection.close: err ? fail(err) : ok()
DriverClosed ==
    /\ driverCall = [op |-> "disconnect", pc |-> "closing"]
    /\ \E err \in BOOLEAN :
          /\ driverLog' = Logged("close", ~err)
          /\ driverResult' = [op |-> "disconnect",
                              outcome |-> IF err THEN "close failed" ELSE "ok"]
    /\ driverCall' = Idle
    /\ UNCHANGED <<driverConnection, foreignKeysOn, driverCalls>>
    /\ UNCHANGED nonDriverVars

\* createQueryRunner(): rejects without a connection, else returns a runner on it
DriverCreateQueryRunner ==
    /\ driverCall = Idle
    /\ driverCalls < MaxDriverCalls
    /\ driverCalls' = driverCalls + 1
    /\ driverResult' = [op |-> "createQueryRunner",
                        outcome |-> IF driverConnection = "undefined"
                                      THEN "ConnectionIsNotSetError" ELSE "ok"]
    /\ UNCHANGED <<driverConnection, foreignKeysOn, driverCall, driverLog>>
    /\ UNCHANGED nonDriverVars

InitDriver ==
    /\ ExecuteUnused
    /\ BuildUnused
    /\ RunnerUnused
    /\ DriverUnused
    /\ RelationUnused
    /\ WhereUnused
    /\ PersistUnused

NextDriver ==
    \/ DriverConnect
    \/ DriverOpened
    \/ DriverPragmaDone
    \/ DriverDisconnect
    \/ DriverClosed
    \/ DriverCreateQueryRunner

SpecDriver == InitDriver /\ [][NextDriver]_vars

-----------------------------------------------------------------------------
(* Dependency sorter (order) and operation executor.                         *)
(* order is stable and deterministic: it emits, again and again, the first   *)
(* subject of the input whose referenced subjects were all emitted; removes  *)
(* follow the inserts in the reverse of that order.                          *)

MaxNodes == 3   \* subjects handed to the sorter

GeneratedIds == <<"g1", "g2", "g3", "g4", "g5">>

\* the subjects b that subject a references, among the subjects in nodes
Referenced(a, edges, nodes) == {b \in nodes : <<a, b>> \in edges}

\* faulty variant: a subject is emitted without waiting for the subjects it references
ReadyAlways(a, emitted, edges, nodes) == TRUE

\* every subject that a references has been emitted already
Ready(a, emitted, edges, nodes) ==
    \A b \in Referenced(a, edges, nodes) : \E k \in DOMAIN emitted : emitted[k] = b

\* topological sort of the subjects in remaining (in input order); when no subject is
\* ready the graph has a cycle and the first remaining subject is emitted
RECURSIVE TopologicalSort(_, _, _, _)
TopologicalSort(remaining, emitted, edges, nodes) ==
    IF remaining = <<>>
      THEN emitted
      ELSE LET ready == {k \in DOMAIN remaining : Ready(remaining[k], emitted, edges, nodes)}
               k == IF ready = {} THEN 1 ELSE CHOOSE x \in ready : \A y \in ready : x <= y
           IN TopologicalSort(SubSeq(remaining, 1, k - 1) \o SubSeq(remaining, k + 1, Len(remaining)),
                              Append(emitted, remaining[k]), edges, nodes)

Reverse(seq) == [k \in 1..Len(seq) |-> seq[Len(seq) + 1 - k]]

\* the indices of kinds, in order, whose operation is in ops
IndicesOf(kinds, ops) ==
    SelectSeq([k \in 1..Len(kinds) |-> k], LAMBDA k : kinds[k] \in ops)

\* order(subjects): referenced rows first for inserts and updates, then the removes,
\* dependents first
order(kinds, edges) ==
    LET saves == IndicesOf(kinds, {"insert", "update"})
        removes == IndicesOf(kinds, {"remove"})
        inSeq(q) == {q[k] : k \in DOMAIN q}
    IN TopologicalSort(saves, <<>>, edges, inSeq(saves))
         \o Reverse(TopologicalSort(removes, <<>>, edges, inSeq(removes)))

\* Sorter: sorted = order(subjects)
OrderSubjects ==
    /\ persistState = "input"
    /\ sorted' = order(orderKinds, orderEdges)
    /\ persistState' = "ordered"
    /\ UNCHANGED <<orderKinds, orderEdges, executed>>
    /\ UNCHANGED nonPersistVars

\* position of the operation of subject a in the operations issued so far, 0 if none
ExecutedAt(a) ==
    IF \E k \in DOMAIN executed : executed[k].subject = a
      THEN CHOOSE k \in DOMAIN executed : executed[k].subject = a
      ELSE 0

\* the number of inserts issued so far
InsertsIssued == Cardinality({k \in DOMAIN executed : executed[k].op = "insert"})

\* applying the change maps whose referenced Subject already has an identifier: the
\* identifiers the foreign key columns of subject a receive
ResolvedForeignKeys(a) ==
    {executed[ExecutedAt(b)].identifier :
        b \in {x \in DOMAIN orderKinds : <<a, x>> \in orderEdges /\ ExecutedAt(x) # 0}}

\* Executor: the operation of the next subject in sorted order; an insert captures the
\* generated identifier
PersistExecute ==
    /\ persistState = "ordered"
    /\ Len(executed) < Len(sorted)
    /\ LET a == sorted[Len(executed) + 1]
           kind == orderKinds[a]
       IN executed' = Append(executed,
              [op |-> kind,
               subject |-> a,
               foreignKeys |-> IF kind = "remove" THEN {} ELSE ResolvedForeignKeys(a),
               identifier |-> IF kind = "insert" THEN GeneratedIds[InsertsIssued + 1]
                                                 ELSE "existing"])
    /\ persistState' = IF Len(executed) + 1 = Len(sorted) THEN "done" ELSE "ordered"
    /\ UNCHANGED <<orderKinds, orderEdges, sorted>>
    /\ UNCHANGED nonPersistVars

\* the directed graphs without self loops on the subjects 1..n
Graphs(n) == SUBSET {e \in (1..n) \X (1..n) : e[1] # e[2]}

InitOrder ==
    /\ \E n \in 1..MaxNodes :
          /\ orderKinds \in [1..n -> {"insert", "remove"}]
          /\ orderEdges \in Graphs(n)
    /\ sorted = <<>>
    /\ executed = <<>>
    /\ persistState = "input"
    /\ ExecuteUnused
    /\ BuildUnused
    /\ RunnerUnused
    /\ DriverUnused
    /\ RelationUnused
    /\ WhereUnused

NextOrder == OrderSubjects \/ PersistExecute

SpecOrder == InitOrder /\ [][NextOrder]_vars

\* ---- a save: builder, then sorter, then executor ----

\* Subject.mustBeInserted: an entity with no identifier yet
mustBeInserted(subject) == subject.entity # "none" /\ subject.identifier = "undefined"

\* a change map whose value is a Subject makes its holder reference that Subject
SubjectEdges(subjs) ==
    {<<a, b>> \in (DOMAIN subjs) \X (DOMAIN subjs) :
        \E k \in DOMAIN subjs[a].changeMaps :
            /\ subjs[a].changeMaps[k].value # "null"
            /\ subjs[b].entity = subjs[a].changeMaps[k].value}

\* the subjects the builder returned are handed to the sorter
PersistPlan ==
    /\ persistState = "planning"
    /\ buildState = "done"
    /\ orderKinds' = [a \in DOMAIN subjects |->
                        IF mustBeInserted(subjects[a]) THEN "insert" ELSE "update"]
    /\ orderEdges' = SubjectEdges(subjects)
    /\ persistState' = "input"
    /\ UNCHANGED <<sorted, executed>>
    /\ UNCHANGED nonPersistVars

Children == {"n1", "n2"}

\* the subjects of a save: the new parents and the new children that got a Subject
SavedSubjects(parents, withSubject) ==
    [i \in 1..Len(parents) |-> EntitySubject("Post", parents[i])]
      \o [i \in 1..Len(SelectSeq(RelatedOrder, LAMBDA e : e \in withSubject)) |->
            EntitySubject(InverseEntityMetadata,
                          SelectSeq(RelatedOrder, LAMBDA e : e \in withSubject)[i])]

InitPersist ==
    /\ \E parents \in {<<"p1">>, <<"p1", "p2">>}, withSubject \in SUBSET Children :
          subjects \in {SavedSubjects(parents, withSubject),
                        Reverse(SavedSubjects(parents, withSubject))}
    /\ \E first \in SeqsUpTo(Children, MaxLen), second \in SeqsUpTo(Children, 1) :
          entityCollection = [o \in Owners |->
                                [kind |-> "array", items |-> IF o = "p1" THEN first ELSE second]]
    /\ databaseEntity = [o \in Owners |-> NotLoaded]
    /\ persistenceEnabled = TRUE
    /\ cursor = 0
    /\ initialLength = 0
    /\ buildState = "ready"
    /\ orderKinds = <<>>
    /\ orderEdges = {}
    /\ sorted = <<>>
    /\ executed = <<>>
    /\ persistState = "planning"
    /\ ExecuteUnused
    /\ RunnerUnused
    /\ DriverUnused
    /\ RelationUnused
    /\ WhereUnused

NextPersist ==
    \/ BuildBegin
    \/ BuildVisit
    \/ BuildReturn
    \/ PersistPlan
    \/ OrderSubjects
    \/ PersistExecute

SpecPersist == InitPersist /\ [][NextPersist]_vars

-----------------------------------------------------------------------------
(* UpdateQueryBuilder.where / andWhere / orWhere.  The input of each action  *)
(* is the condition computeWhereParameter returned for the argument; the     *)
(* empty string is the falsy condition.  The calls pass no parameters.       *)

MaxWhereCalls == 3   \* where, andWhere and orWhere calls made on one builder

Conditions == {"", "a = 1", "b = 2"}

\* faulty variant: where() keeps the conditions set before
WheresAfterWhereKeeping(old, condition) ==
    old \o (IF condition # "" THEN <<[type |-> "simple", condition |-> condition]>> ELSE <<>>)

\* this.expressionMap.wheres = []; if (condition) this.expressionMap.wheres = [{simple}]
WheresAfterWhere(old, condition) ==
    IF condition # "" THEN <<[type |-> "simple", condition |-> condition]>> ELSE <<>>

\* where(where)
Where ==
    /\ Len(whereCalls) < MaxWhereCalls
    /\ \E condition \in Conditions :
          /\ wheres' = WheresAfterWhere(wheres, condition)
          /\ whereCalls' = Append(whereCalls, [op |-> "where", condition |-> condition])
    /\ UNCHANGED nonWhereVars

\* andWhere(where)
AndWhere ==
    /\ Len(whereCalls) < MaxWhereCalls
    /\ \E condition \in Conditions :
          /\ wheres' = Append(wheres, [type |-> "and", condition |-> condition])
          /\ whereCalls' = Append(whereCalls, [op |-> "andWhere", condition |-> condition])
    /\ UNCHANGED nonWhereVars

\* orWhere(where)
OrWhere ==
    /\ Len(whereCalls) < MaxWhereCalls
    /\ \E condition \in Conditions :
          /\ wheres' = Append(wheres, [type |-> "or", condition |-> condition])
          /\ whereCalls' = Append(whereCalls, [op |-> "orWhere", condition |-> condition])
    /\ UNCHANGED nonWhereVars

InitWhere ==
    /\ wheres = <<>>
    /\ whereCalls = <<>>
    /\ ExecuteUnused
    /\ BuildUnused
    /\ RunnerUnused
    /\ DriverUnused
    /\ PersistUnused
    /\ RelationUnused

NextWhere == Where \/ AndWhere \/ OrWhere

SpecWhere == InitWhere /\ [][NextWhere]_vars

-----------------------------------------------------------------------------
(* Relational query builder on the many-to-many relation between Image and   *)
(* Post: relation(Image, "posts").of(owners).add(values) / .remove(values),  *)
(* and the load of Post.images from the other side of the relation.          *)

ImageIds == {"1", "2"}
PostIds == {"1", "2"}

\* an image or a post given as entity object, as raw id or as id map
Given(ids) ==
    {[form |-> "entity", id |-> id, label |-> "#" \o id] : id \in ids}
      \cup {[form |-> "id", value |-> id] : id \in ids}
      \cup {[form |-> "idMap", id |-> id] : id \in ids}

\* the id of what was given: the value itself, or the id column of the object
GivenId(x) == IF x.form = "id" THEN x.value ELSE x.id

\* of(...) and add(...)/remove(...) take one of them or an array of them
Arguments(ids) ==
    {<<x>> : x \in Given(ids)}
      \cup {<<x, y>> : <<x, y>> \in {p \in Given(ids) \X Given(ids) : GivenId(p[1]) # GivenId(p[2])}}

IdsOf(argument) == {GivenId(argument[k]) : k \in DOMAIN argument}

\* faulty variant: the image id is always written to the owner column
JunctionRowImageFirst(imageId, postId) == [ownerId |-> imageId, inverseId |-> postId]

\* junction row { ownerId, inverseId } of the link between an image and a post
JunctionRow(imageId, postId) ==
    IF imageOwns THEN [ownerId |-> imageId, inverseId |-> postId]
                 ELSE [ownerId |-> postId, inverseId |-> imageId]

\* one junction row per pair of the cross product
RowsOf(images, posts) ==
    {JunctionRow(GivenId(images[i]), GivenId(posts[k])) : i \in DOMAIN images, k \in DOMAIN posts}

\* faulty variant: remove deletes every link of the given images
JunctionAfterRemoveOfOwners(rows, images, posts) ==
    rows \ UNION {RowsOf(images, <<post>>) : post \in Given(PostIds)}

\* the junction table after the rows of images x posts were deleted
JunctionAfterRemove(rows, images, posts) == rows \ RowsOf(images, posts)

\* the junction table after the rows of images x posts were inserted
JunctionAfterAdd(rows, images, posts) == rows \cup RowsOf(images, posts)

\* findOneById(Post, postId, { relations: ["images"] }): the ids of loadedPost.images
LoadedImages(postId) ==
    {imageId \in ImageIds :
        \E row \in junction :
            IF imageOwns THEN row.ownerId = imageId /\ row.inverseId = postId
                         ELSE row.ownerId = postId /\ row.inverseId = imageId}

\* relation(Image, "posts").of(images).add(posts)
RelationAdd ==
    /\ relationPhase = "prepared"
    /\ \E images \in Arguments(ImageIds), posts \in Arguments(PostIds) :
          /\ junction' = JunctionAfterAdd(junction, images, posts)
          /\ addCall' = [images |-> IdsOf(images), posts |-> IdsOf(posts)]
    /\ junctionBefore' = junction
    /\ relationPhase' = "added"
    /\ UNCHANGED <<imageOwns, removeCall>>
    /\ UNCHANGED nonRelationVars

\* relation(Image, "posts").of(images).remove(posts)
RelationRemove ==
    /\ relationPhase = "added"
    /\ \E images \in Arguments(ImageIds), posts \in Arguments(PostIds) :
          /\ junction' = JunctionAfterRemove(junction, images, posts)
          /\ removeCall' = [images |-> IdsOf(images), posts |-> IdsOf(posts)]
    /\ relationPhase' = "removed"
    /\ UNCHANGED <<imageOwns, junctionBefore, addCall>>
    /\ UNCHANGED nonRelationVars

\* prepareData saved the images and the posts; the relation has any links, or none
InitRelation ==
    /\ imageOwns \in BOOLEAN
    /\ \E links \in SUBSET (ImageIds \X PostIds) :
          junction = {IF imageOwns THEN [ownerId |-> l[1], inverseId |-> l[2]]
                                   ELSE [ownerId |-> l[2], inverseId |-> l[1]] : l \in links}
    /\ relationPhase = "prepared"
    /\ junctionBefore = {}
    /\ addCall = NoCall
    /\ removeCall = NoCall
    /\ ExecuteUnused
    /\ BuildUnused
    /\ RunnerUnused
    /\ DriverUnused
    /\ PersistUnused
    /\ WhereUnused

NextRelation == RelationAdd \/ RelationRemove

SpecRelation == InitRelation /\ [][NextRelation]_vars

-----------------------------------------------------------------------------

\* the number of change maps equal to cm that the subject at index i carries
CountChangeMaps(subjs, i, cm) ==
    IF i \in DOMAIN subjs
      THEN Cardinality({k \in DOMAIN subjs[i].changeMaps : subjs[i].changeMaps[k] = cm})
      ELSE 0

\* the identifiers whose Subject received the change map cm in this step
IdsGaining(cm) ==
    {subjects'[i].identifier : i \in {j \in DOMAIN subjects' :
        /\ subjects'[j].identifier # "undefined"
        /\ CountChangeMaps(subjects', j, cm) > CountChangeMaps(subjects, j, cm)}}

\* C11: the relation diff is a set difference by identifier value: a binding to the
\* owner is planned exactly for the identifiers in after minus before, a removal (null)
\* exactly for those in before minus after, and nothing for the identifiers in both.
C11_DiffIsSetDifference ==
    [][\A o \in Owners :
         (Visiting(o) /\ entityCollection[o].kind # "undefined" /\ buildState' = "running") =>
            /\ IdsGaining(OwnerChangeMap(o)) = (After(o) \ {"undefined"}) \ Before(o)
            /\ IdsGaining(NullChangeMap) = Before(o) \ After(o)
      ]_vars

C11_Witness ==
    /\ Visited("p1")
    /\ Before("p1") = {"id1", "id2"}
    /\ After("p1") = {"id2", "id3"}
    /\ \E i \in DOMAIN subjects : /\ subjects[i].identifier = "id3"
                                  /\ subjects[i].changeMaps = <<OwnerChangeMap("p1")>>
    /\ \E i \in DOMAIN subjects : /\ subjects[i].identifier = "id1"
                                  /\ subjects[i].changeMaps = <<NullChangeMap>>
    /\ \A i \in DOMAIN subjects : subjects[i].identifier = "id2" => subjects[i].changeMaps = <<>>

\* C14: a planning error (update values never defined through set(); a one-to-many
\* collection with an unsaved entity that has no Subject) is raised before any statement
\* is issued to the database, and a transaction that was already open is left untouched.
C14_PlanningErrorBeforeAnyStatement ==
    /\ error = "valuesNotDefined" =>
          /\ ~Called("startTransaction")
          /\ ~Called("query")
          /\ ~Called("commitTransaction")
          /\ ~Called("rollbackTransaction")
          /\ (activeAtBegin => isTransactionActive)
    /\ buildState = "failed" => calls = <<>>

\* C15: when the UPDATE fails, the rest of the call is aborted: no entity update, no
\* after-update broadcast, and commitTransaction is never called in a call that failed
\* at an earlier step.
C15_FailedStatementAbortsTheRest ==
    /\ error = "query" =>
          /\ ~Called("returningResultsEntityUpdator.update")
          /\ ~Called("broadcastAfterUpdateEvent")
          /\ ~Called("commitTransaction")
    /\ (error # "none" /\ error # "commitTransaction") => ~Called("commitTransaction")

C15_Witness ==
    /\ HasThrown
    /\ thrown = "query"
    /\ Called("query")
    /\ expressionMap.callListeners /\ EntityUpdateEnabled
    /\ transactionStartedByUs
    /\ Called("rollbackTransaction")

-----------------------------------------------------------------------------
(* Properties of MysqlQueryRunner                                            *)

\* in this step a call of op was accepted: it passed its guards and awaits connect()
Accepted(op) ==
    /\ Len(tasks') = Len(tasks) + 1
    /\ tasks'[Len(tasks')] = [op |-> op, pc |-> "connecting"]

\* in this step a call was settled with the given outcome
Settled(outcome) == lastResult' # lastResult /\ lastResult'.outcome = outcome

\* in this step a statement was handed to databaseConnection.query
StatementSent ==
    \E i \in DOMAIN tasks : /\ tasks[i].pc = "connecting"
                            /\ Len(tasks') = Len(tasks)
                            /\ tasks'[i].pc = "sent"

\* in this step the statement of the oldest call (one of ops) succeeded
Succeeded(ops) ==
    /\ tasks # <<>>
    /\ tasks[1].pc = "sent"
    /\ tasks[1].op \in ops
    /\ tasks' = Tail(tasks)
    /\ lastResult' = [op |-> tasks[1].op, outcome |-> "ok"]

\* C17: once release() was called every later call fails with
\* QueryRunnerAlreadyReleasedError (none is accepted), and under every interleaving of
\* release() with pending calls no statement is sent to the connection after release().
C17_NothingSentAfterRelease ==
    [][isReleased =>
         /\ \A op \in RunnerOps : SyncOutcome(op) = "QueryRunnerAlreadyReleasedError"
         /\ \A op \in RunnerOps : ~Accepted(op)
         /\ ~StatementSent
      ]_vars

C19_CommitRollbackGuarded ==
    [][/\ (~isTransactionActive /\ ~isReleased) =>
             /\ SyncOutcome("commitTransaction") = "TransactionNotStartedError"
             /\ SyncOutcome("rollbackTransaction") = "TransactionNotStartedError"
       /\ Settled("TransactionNotStartedError") =>
             /\ lastResult'.op \in {"commitTransaction", "rollbackTransaction"}
             /\ ~isTransactionActive /\ ~isTransactionActive'
             /\ tasks' = tasks
       /\ \A op \in {"commitTransaction", "rollbackTransaction"} :
             Accepted(op) => (isTransactionActive /\ isTransactionActive')
       /\ Succeeded({"commitTransaction", "rollbackTransaction"}) => ~isTransactionActive'
      ]_vars

C19_Witness ==
    /\ lastResult = [op |-> "rollbackTransaction", outcome |-> "TransactionNotStartedError"]
    /\ ~isTransactionActive
    /\ ~dbTx
    /\ "insert" \in committed
    /\ tasks = <<>>

\* C20: whenever no transaction statement is in flight, isTransactionActive is true
\* exactly when a START TRANSACTION succeeded and no COMMIT or ROLLBACK succeeded since,
\* also after a START TRANSACTION, COMMIT or ROLLBACK statement failed.
C20_FlagTellsTransactionInProgress ==
    (\A i \in DOMAIN tasks : tasks[i].op \notin TransactionOps) =>
        (isTransactionActive = dbTx)

\* C16: every failure of a database operation performed on behalf of a call makes that
\* call fail with an error (a failed rollback inside execute, a failed PRAGMA inside
\* SqliteDriver.connect), and no statement is issued a second time within a call.
C16_ErrorsSurfacedNothingRetried ==
    /\ (driverCall = Idle /\ driverResult.outcome = "ok") =>
          \A i \in DOMAIN driverLog : driverLog[i].call = driverCalls => driverLog[i].ok
    /\ \A i, j \in DOMAIN driverLog :
          (i < j /\ driverLog[i].call = driverLog[j].call) =>
             driverLog[i].statement # driverLog[j].statement
    /\ (pc = "done" /\ error # "none") => thrown # "none"
    /\ \A i, j \in DOMAIN calls : (i < j /\ calls[i] = calls[j]) => FALSE

-----------------------------------------------------------------------------
(* Properties of a save: builder, sorter, executor                           *)

\* index of the Subject of entity e, 0 if none
SubjectOf(e) == FindSubject(subjects, e)

\* the save of the new parent p1 with the two new children n1 and n2 has completed
ParentWithTwoChildrenSaved ==
    /\ persistState = "done"
    /\ Len(subjects) = 3
    /\ \A e \in {"p1", "n1", "n2"} : SubjectOf(e) # 0
    /\ entityCollection["p1"].items \in {<<"n1", "n2">>, <<"n2", "n1">>}

\* C12: saving a new parent with two new children through a cascade-insert one-to-many
\* relation issues exactly 3 inserts, the parent's before both children's, each child's
\* foreign key is the parent's generated identifier, and each child Subject carries
\* exactly one change map whose value is the parent Subject.
C12_ParentThenChildren ==
    ParentWithTwoChildrenSaved =>
        /\ Len(executed) = 3
        /\ \A k \in DOMAIN executed : executed[k].op = "insert"
        /\ \A c \in Children :
              /\ ExecutedAt(SubjectOf("p1")) < ExecutedAt(SubjectOf(c))
              /\ executed[ExecutedAt(SubjectOf(c))].foreignKeys =
                    {executed[ExecutedAt(SubjectOf("p1"))].identifier}
              /\ subjects[SubjectOf(c)].changeMaps = <<OwnerChangeMap("p1")>>

C12_Witness ==
    /\ ParentWithTwoChildrenSaved
    /\ SubjectOf("p1") = 3
    /\ executed[1].subject = 3
    /\ executed[1].identifier = "g1"
    /\ executed[2].foreignKeys = {"g1"}
    /\ executed[3].foreignKeys = {"g1"}

RECURSIVE ReachableFrom(_, _)
ReachableFrom(nodes, edges) ==
    LET next == nodes \cup {e[2] : e \in {x \in edges : x[1] \in nodes}}
    IN IF next = nodes THEN nodes ELSE ReachableFrom(next, edges)

\* no subject references itself through a chain of foreign keys
Acyclic(edges) == \A e \in edges : e[1] \notin ReachableFrom({e[2]}, edges)

\* position of subject a in the order the sorter returned, 0 if none
SortedAt(a) ==
    IF \E k \in DOMAIN sorted : sorted[k] = a
      THEN CHOOSE k \in DOMAIN sorted : sorted[k] = a
      ELSE 0

\* C13: in an acyclic foreign-key graph, for every edge A -> B (A holds the foreign key
\* referencing B) B's insert is ordered and executed before A's insert, and A's remove
\* before B's remove.
C13_ReferencedFirstRemovesReversed ==
    Acyclic(orderEdges) =>
        \A e \in orderEdges :
            LET a == e[1]
                b == e[2]
            IN /\ (orderKinds[a] = "insert" /\ orderKinds[b] = "insert") =>
                     /\ persistState # "input" => SortedAt(b) < SortedAt(a)
                     /\ ExecutedAt(a) # 0 => (ExecutedAt(b) # 0 /\ ExecutedAt(b) < ExecutedAt(a))
               /\ (orderKinds[a] = "remove" /\ orderKinds[b] = "remove") =>
                     /\ persistState # "input" => SortedAt(a) < SortedAt(b)
                     /\ ExecutedAt(b) # 0 => (ExecutedAt(a) # 0 /\ ExecutedAt(a) < ExecutedAt(b))

C13_Witness ==
    /\ persistState = "done"
    /\ orderKinds = <<"insert", "insert", "insert">>
    /\ orderEdges = {<<1, 2>>, <<2, 3>>}
    /\ sorted = <<3, 2, 1>>
    /\ executed[3].subject = 1
    /\ executed[3].foreignKeys = {"g2"}

\* the number of times execute called c
TimesCalled(c) == Cardinality({i \in DOMAIN calls : calls[i] = c})

\* C24: execute releases the query runner exactly once, on the success and on the
\* failure path, if and only if it created the runner itself: a runner supplied by the
\* caller is never released by execute, and a runner execute created is released when
\* execute ends.
C24_ReleasesOwnRunnerOnce ==
    /\ TimesCalled("release") <= 1
    /\ suppliedRunner => (~Called("release") /\ ~isReleased)
    /\ pc = "done" => (Called("release") <=> ~suppliedRunner)
    /\ (pc = "done" /\ ~suppliedRunner) => (isReleased /\ calls[Len(calls)] = "release")

C24_Witness ==
    /\ HasThrown
    /\ thrown = "query"
    /\ ~suppliedRunner
    /\ isReleased
    /\ TimesCalled("release") = 1

\* build has returned or thrown
BuildEnded == buildState \in {"done", "failed"}

\* C26: build terminates; the Subjects that were in the list when build started are
\* visited one by one, each once (all of them when build returns); the Subjects appended
\* during the pass have an identifier and no entity and are never visited; and with
\* persistenceEnabled false no Subject and no change map is produced.
C26_BuildTerminatesVisitingInitialSubjectsOnce ==
    /\ <>BuildEnded
    /\ [](buildState = "done" => cursor = initialLength + 1)
    /\ [](buildState \in {"running", "done", "failed"} =>
             /\ cursor <= initialLength + 1
             /\ initialLength <= Len(subjects)
             /\ \A i \in DOMAIN subjects :
                   i > initialLength =>
                      (subjects[i].entity = "none" /\ subjects[i].identifier # "undefined"))
    /\ [][/\ buildState = "running" =>
               (cursor' = cursor + 1 \/ (buildState' = "done" /\ cursor' = cursor))
          /\ initialLength' # initialLength => buildState = "ready"
          /\ subjects' # subjects =>
               (buildState = "running" /\ cursor <= initialLength /\ cursor' = cursor + 1)
          /\ persistenceEnabled = FALSE => subjects' = subjects
         ]_vars

C26_Witness ==
    /\ buildState = "done"
    /\ persistenceEnabled
    /\ initialLength = 2
    /\ Len(subjects) = 4
    /\ cursor = 3

\* C25: once release() has been called, the connection the runner obtained from the pool
\* has been given back to the pool, also when release() was called while the pool's
\* getConnection callback was still pending; and it is given back at most once.
C25_ConnectionReleasedOnce ==
    /\ (isReleased /\ databaseConnection = "connection") => poolReleases >= 1
    /\ poolReleases <= 1

-----------------------------------------------------------------------------
(* Properties of UpdateQueryBuilder.where / andWhere / orWhere               *)

\* index of the last where() call, 0 if there was none
LastWhere ==
    IF \E k \in DOMAIN whereCalls : whereCalls[k].op = "where"
      THEN CHOOSE k \in DOMAIN whereCalls :
             /\ whereCalls[k].op = "where"
             /\ \A j \in DOMAIN whereCalls : whereCalls[j].op = "where" => j <= k
      ELSE 0

\* the entries of the andWhere and orWhere calls made after the last where(), in call order
AddedAfterLastWhere ==
    [k \in 1..(Len(whereCalls) - LastWhere) |->
        [type |-> IF whereCalls[LastWhere + k].op = "andWhere" THEN "and" ELSE "or",
         condition |-> whereCalls[LastWhere + k].condition]]

\* C23 as stated: wheres is exactly the condition of the last where() call as one
\* 'simple' entry, followed in call order by the andWhere/orWhere conditions added
\* after it.
C23_AsStated ==
    LastWhere # 0 =>
        wheres = <<[type |-> "simple", condition |-> whereCalls[LastWhere].condition]>>
                    \o AddedAfterLastWhere

\* C23: wheres is the condition of the last where() call as one 'simple' entry when
\* that condition is not empty and no entry when it is empty, followed in call order by
\* the andWhere/orWhere conditions added after it; nothing set before the last where()
\* survives.
C23_LastWhereOverrides ==
    wheres = (IF LastWhere # 0 /\ whereCalls[LastWhere].condition # ""
                THEN <<[type |-> "simple", condition |-> whereCalls[LastWhere].condition]>>
                ELSE <<>>)
             \o AddedAfterLastWhere

C23_Witness ==
    /\ Len(whereCalls) = 3
    /\ whereCalls[1].op = "andWhere"
    /\ whereCalls[2] = [op |-> "where", condition |-> "a = 1"]
    /\ whereCalls[3].op = "orWhere"
    /\ wheres = <<[type |-> "simple", condition |-> "a = 1"],
                  [type |-> "or", condition |-> whereCalls[3].condition]>>

-----------------------------------------------------------------------------
(* Properties of the relational query builder                                *)

\* the links of the relation as pairs <<image id, post id>>, read from the posts' side
Links(rows) ==
    {l \in ImageIds \X PostIds :
        \E row \in rows :
            IF imageOwns THEN row.ownerId = l[1] /\ row.inverseId = l[2]
                         ELSE row.ownerId = l[2] /\ row.inverseId = l[1]}

=============================================================================
